---- MODULE Spec2Model ----
(***************************************************************************)
(* State-machine model of code_iot_bm.py, the "Apex-Orion" quarterly      *)
(* business simulator.  One script run of the Streamlit page is one step:  *)
(* either the "Execute Quarter" form is submitted (lines 130-239) or the   *)
(* "Restart Simulation" button is pressed (lines 81-84); the run then ends *)
(* in the game-over check of lines 86-96, which decides what is rendered.  *)
(*                                                                         *)
(* The program computes in binary floating point.  The model computes the  *)
(* same formulas exactly, in fixed point, with one scale per quantity:     *)
(*   spend amounts         in steps of 0.5        (SpendScale  = 2)        *)
(*   cash                  in 1/500000 of $1M     (CashScale)              *)
(*   the three org metrics in halves of a point   (MetricScale = 2)        *)
(*   contract mix          in 1/20 of a percent   (MixScale    = 20)       *)
(*   competitor price      in 1/50 of the index   (PriceScale  = 50)       *)
(*   stockout chance       in 1/400               (ChanceScale = 400)      *)
(*   number of breakdowns  in 1/5 of a machine    (BrokenScale = 5)        *)
(*   revenue streams       in 1/25000 of $1M      (RevScale)               *)
(*   valuation             in 1/125000 of $1M     (ValScale)               *)
(* Every division below is exact at these scales.  The widgets are taken   *)
(* to deliver any value of the range they are declared with.               *)
(***************************************************************************)
EXTENDS Integers, Sequences, FiniteSets, TLC

\* The keys of st.session_state (lines 19-38), then
\*   turn: the form values and the locals of the last submitted run
\*         (lines 131-238), NoTurn when the last run executed no quarter;
\*   view: the page the last run rendered (lines 86-128);
\*   restart_from: the page on which "Restart Simulation" was pressed when
\*         the last run was a restart (lines 81-84), "None" otherwise.
VARIABLES game_active, quarter, cash, logs, installed_base, contract_mix,
          data_accuracy, sales_culture, customer_trust, competitor_price,
          history, turn, view, restart_from

vars == <<game_active, quarter, cash, logs, installed_base, contract_mix,
          data_accuracy, sales_culture, customer_trust, competitor_price,
          history, turn, view, restart_from>>

(* ---------------- scales of the fixed-point representation ------------- *)
SpendScale == 2
CashScale == 500000
MetricScale == 2
MixScale == 20
PriceScale == 50
ChanceScale == 400
BrokenScale == 5
RevScale == 25000
ValScale == 125000

(* ---------------- game constants (lines 7-16) --------------------------- *)
STARTING_CASH == 20 * CashScale
QUARTERS_TOTAL == 12
WINNING_VALUATION == 200 * ValScale
\* HARDWARE_MARGIN = 0.15 and PARTS_MARGIN = 0.60, in percent.
HARDWARE_MARGIN_PCT == 15
PARTS_MARGIN_PCT == 60

(* ---------------- the widgets of the form (lines 106-121) --------------- *)
\* st.number_input(..., 0.0, 5.0, 0.0, step=0.5): 0 .. 10 half-millions.
SpendMax == 10
\* The target comes from st.slider(..., 0, 100, ...), in whole percents, and
\* the posture from the three options of st.select_slider.

Min(a, b) == IF a <= b THEN a ELSE b
Max(a, b) == IF a >= b THEN a ELSE b

(* ---------------- State Initialization (lines 18-38) -------------------- *)
NoTurn ==
    [submit |-> FALSE, quarter |-> 0,
     invest_iot |-> 0, invest_train |-> 0, invest_brand |-> 0,
     contract_target |-> 0, inventory_strat |-> "Balanced",
     cash_before |-> 0, outcome_before |-> 0,
     data_accuracy_before |-> 0, sales_culture_before |-> 0,
     customer_trust_before |-> 0,
     desired_shift |-> 0, max_possible_shift |-> 0, actual_shift |-> 0,
     num_broken |-> 0, holding_cost |-> 0, stockout_chance |-> 0,
     is_stockout |-> FALSE, sc_penalty |-> 0,
     rev_hardware |-> 0, rev_parts |-> 0, rev_service |-> 0,
     cost_service |-> 0, gross_profit |-> 0, current_val |-> 0]

InitialState ==
    [game_active |-> TRUE,
     quarter |-> 1,
     cash |-> STARTING_CASH,
     logs |-> << >>,
     installed_base |-> 1000,
     contract_mix |-> [Transactional |-> 100 * MixScale, Outcome |-> 0],
     data_accuracy |-> 20 * MetricScale,
     sales_culture |-> 50 * MetricScale,
     customer_trust |-> 40 * MetricScale,
     competitor_price |-> PriceScale,
     history |-> << >>]

(* ---------------- Helper Functions (lines 41-51) ------------------------ *)
\* The icons are emoji in the program; their names stand for them here.
icon_map(type) ==
    CASE type = "info" -> "i"
      [] type = "warning" -> "!"
      [] type = "danger" -> "fire"
      [] type = "success" -> "ok"
      [] type = "money" -> "$"
      [] OTHER -> "i"

\* Mutant: the event added at the tail of the log.
log_event_AtTail(log, q, message, type) ==
    log \o <<[icon |-> icon_map(type), quarter |-> q, message |-> message]>>

\* st.session_state.logs.insert(0, f"{icon} Q{quarter}: {message}")
log_event(log, q, message, type) ==
    <<[icon |-> icon_map(type), quarter |-> q, message |-> message]>> \o log

\* Mutant: the multipliers of Hardware and Service exchanged.
calculate_valuation_Swapped(rev_stream) ==
    ((rev_stream.Hardware * 50 + rev_stream.Parts * 10 + rev_stream.Service * 8)
        * (ValScale \div RevScale)) \div 10

\* val = Hardware * 0.8 + Parts * 1.0 + Service * 5.0; streams at RevScale,
\* the result at ValScale.
calculate_valuation(rev_stream) ==
    ((rev_stream.Hardware * 8 + rev_stream.Parts * 10 + rev_stream.Service * 50)
        * (ValScale \div RevScale)) \div 10

\* Mutants of the game-over check: the quarter tested before the cash; the
\* bankruptcy stop missing; the quarter compared with >= .
GameOverCheck_QuarterFirst(c, q) ==
    IF q > QUARTERS_TOTAL
      THEN [page |-> "Complete", elements |-> {"success", "balloons"}]
      ELSE IF c < 0
        THEN [page |-> "Bankrupt", elements |-> {"error"}]
        ELSE [page |-> "Form", elements |-> {"turn_form", "market_news"}]

GameOverCheck_NoBankruptStop(c, q) ==
    IF q > QUARTERS_TOTAL
      THEN [page |-> "Complete", elements |-> {"success", "balloons"}]
      ELSE [page |-> "Form", elements |-> {"turn_form", "market_news"}]

GameOverCheck_OffByOne(c, q) ==
    IF c < 0
      THEN [page |-> "Bankrupt", elements |-> {"error"}]
      ELSE IF q >= QUARTERS_TOTAL
        THEN [page |-> "Complete", elements |-> {"success", "balloons"}]
        ELSE [page |-> "Form", elements |-> {"turn_form", "market_news"}]

\* Mutant: the game completed one quarter later.
GameOverCheck_OneMore(c, q) ==
    IF c < 0
      THEN [page |-> "Bankrupt", elements |-> {"error"}]
      ELSE IF q > QUARTERS_TOTAL + 1
        THEN [page |-> "Complete", elements |-> {"success", "balloons"}]
        ELSE [page |-> "Form", elements |-> {"turn_form", "market_news"}]

(* ---------------- Game Over Check (lines 86-96) ------------------------- *)
\* What the run renders below the sidebar: the page and its elements.
\* Bankruptcy is checked first and stops the run.  The completion branch shows
\* the success banner and the balloons and stops: it computes no final
\* valuation and no grade.  Otherwise the run goes on to the decision form.
GameOverCheck(c, q) ==
    IF c < 0
      THEN [page |-> "Bankrupt", elements |-> {"error"}]
      ELSE IF q > QUARTERS_TOTAL
        THEN [page |-> "Complete", elements |-> {"success", "balloons"}]
        ELSE [page |-> "Form", elements |-> {"turn_form", "market_news"}]

(* ---------------- Simulation Logic (lines 130-239) ---------------------- *)
\* 0. Expenses: cash -= total_spend + fixed_burn, fixed_burn = 2.0.
fixed_burn == 2 * CashScale
\* Mutant: the spend charged a second time.
Expenses_SpendTwice(c, total_spend) ==
    c - (2 * ((total_spend * CashScale) \div SpendScale) + fixed_burn)
Expenses(c, total_spend) ==
    c - ((total_spend * CashScale) \div SpendScale + fixed_burn)

\* 1. Update Capabilities: metric += invest * rate (rate 5, 4, 3).
Capability(metric, invest, rate) ==
    metric + (invest * rate * MetricScale) \div SpendScale

\* Competitor move: competitor_price -= 0.02.
CompetitorMove(p) == p - (2 * PriceScale) \div 100

\* competitor_price < 0.8, decided on the double the program holds.  Repeated
\* subtraction of 0.02 from 1.0 rounds below the exact value from the fourth
\* subtraction on (0.9199999999999999, ..., 0.7999999999999998), so the
\* comparison is already true when the exact value is 0.8.
DoubleBelowExact(p) == p <= PriceScale - 4
CompetitorCheaper(p) ==
    \/ 10 * p < 8 * PriceScale
    \/ 10 * p = 8 * PriceScale /\ DoubleBelowExact(p)

\* 2. Contract Negotiation.
DesiredShift(contract_target, outcome) == contract_target * MixScale - outcome
MaxPossibleShift(sc, ct) == ((sc + ct) * MixScale) \div (10 * MetricScale)
\* Mutant: the desired shift applied without the cap.
ActualShift_Uncapped(desired_shift, max_possible_shift) == desired_shift
ActualShift(desired_shift, max_possible_shift) ==
    Min(desired_shift, max_possible_shift)
ShiftWarning(desired_shift, actual_shift) ==
    desired_shift > 0 /\ actual_shift < desired_shift
\* Mutant: Transactional not recomputed after the shift.
ShiftMix_StaleTransactional(mix, actual_shift) ==
    [Outcome |-> mix.Outcome + actual_shift,
     Transactional |-> mix.Transactional]
ShiftMix(mix, actual_shift) ==
    [Outcome |-> mix.Outcome + actual_shift,
     Transactional |-> 100 * MixScale - (mix.Outcome + actual_shift)]

\* 3. Breakdowns: installed_base * 0.10 * (1 - (data_accuracy / 100) * 0.8),
\* i.e. installed_base * (1000 - 8 * data_accuracy) / 10000, at BrokenScale.
NumBroken(ib, da) ==
    (ib * BrokenScale * (1000 * MetricScale - 8 * da)) \div (10000 * MetricScale)

\* 4. Supply chain: holding cost and stockout chance of the posture.
HoldingCost(inventory_strat) ==
    IF inventory_strat = "Hoard (Safe)" THEN 3 * CashScale
    ELSE IF inventory_strat = "Balanced" THEN (3 * CashScale) \div 2
    ELSE CashScale \div 2

\* Mutant: the chance without the floor max(0, .).
StockoutChance_NoFloor(inventory_strat, da) ==
    IF inventory_strat = "Hoard (Safe)" THEN 0
    ELSE IF inventory_strat = "Balanced"
      THEN ChanceScale \div 10 - (da * ChanceScale) \div (200 * MetricScale)
      ELSE (4 * ChanceScale) \div 10 - (da * ChanceScale) \div (200 * MetricScale)

\* 0.0, 0.1 - data_accuracy/200, 0.4 - data_accuracy/200, then max(0, .).
StockoutChance(inventory_strat, da) ==
    Max(0,
        IF inventory_strat = "Hoard (Safe)" THEN 0
        ELSE IF inventory_strat = "Balanced"
          THEN ChanceScale \div 10 - (da * ChanceScale) \div (200 * MetricScale)
          ELSE (4 * ChanceScale) \div 10 - (da * ChanceScale) \div (200 * MetricScale))

\* np.random.random() < stockout_chance; the draw is in [0, 1).
IsStockout(draw, stockout_chance) == draw < stockout_chance
ScPenalty(is_stockout) == IF is_stockout THEN 3 * CashScale ELSE 0
\* Mutant: the trust penalty applied without a stockout too.
TrustAfterStockout_Always(ct, is_stockout) == ct - 10 * MetricScale
TrustAfterStockout(ct, is_stockout) ==
    IF is_stockout THEN ct - 10 * MetricScale ELSE ct

\* 5. Revenue, at RevScale.
\* hardware_demand = 20 * competitor_price * (customer_trust / 50), $1M a unit.
RevHardware(p, ct) ==
    p * ct * ((20 * RevScale) \div (PriceScale * MetricScale * 50))
\* parts_demand = num_broken * (Transactional / 100), $0.2M a part.
RevParts(num_broken, transactional) ==
    (num_broken * transactional * ((2 * RevScale) \div 10000))
        \div ((BrokenScale * MixScale * 100) \div 1000)
\* num_outcome_clients = installed_base * (Outcome / 100), fee 0.05.
RevService(ib, outcome) ==
    (ib * outcome * ((5 * RevScale) \div 25000))
        \div ((MixScale * 100 * 100) \div 25000)
\* cost_service = (num_broken * (Outcome / 100)) * 0.15, at CashScale.
CostService(num_broken, outcome) ==
    (num_broken * outcome * ((15 * CashScale) \div 100000))
        \div ((BrokenScale * MixScale * 100 * 100) \div 100000)
Cannibalization(invest_iot, rev_parts) ==
    invest_iot > 2 * SpendScale /\ rev_parts < RevScale

\* 6. gross_profit = hardware * 0.15 + parts * 0.60 + service - cost_service,
\* at CashScale.
GrossProfit(rev_hardware, rev_parts, rev_service, cost_service) ==
    (rev_hardware * HARDWARE_MARGIN_PCT * (CashScale \div RevScale)) \div 100
    + (rev_parts * PARTS_MARGIN_PCT * (CashScale \div RevScale)) \div 100
    + rev_service * (CashScale \div RevScale)
    - cost_service

CashCritical(c) == c < 5 * CashScale

\* 7. Store History: history.append({"Quarter", "Cash", "Valuation",
\* "Rev_Mix": f"{Outcome}% Outcome"}).
\* Mutant: the new snapshot put in the place of the earlier ones.
StoreHistory_Replace(h, q, c, val, outcome) ==
    <<[Quarter |-> q, Cash |-> c, Valuation |-> val,
       Rev_Mix |-> <<outcome, "% Outcome">>]>>
StoreHistory(h, q, c, val, outcome) ==
    Append(h, [Quarter |-> q, Cash |-> c, Valuation |-> val,
               Rev_Mix |-> <<outcome, "% Outcome">>])

\* Mutant: the quarter advanced twice.
QuarterAdvance_Twice(q) == q + 2
\* st.session_state.quarter += 1
QuarterAdvance(q) == q + 1

\* Mutant: the supply chain step (the stockout and its trust penalty) run
\* before the contract negotiation instead of after it.
ExecuteQuarter_PenaltyBeforeShift(invest_iot, invest_train, invest_brand, contract_target, inventory_strat, draw) ==
    /\ view.page = "Form"
    /\
       \E total_spend \in {invest_iot + invest_train + invest_brand} :
       \E cash0 \in {Expenses(cash, total_spend)} :
       \E da \in {Capability(data_accuracy, invest_iot, 5)} :
       \E sc \in {Capability(sales_culture, invest_train, 4)} :
       \E ct0 \in {Capability(customer_trust, invest_brand, 3)} :
       \E cp \in {CompetitorMove(competitor_price)} :
       \E logs0 \in
            {IF CompetitorCheaper(cp)
             THEN log_event(logs, quarter,
             "Competitor prices are now 20% lower than yours!",
             "warning")
             ELSE logs} :
       \E num_broken \in {NumBroken(installed_base, da)} :
       \E holding_cost \in {HoldingCost(inventory_strat)} :
       \E stockout_chance \in {StockoutChance(inventory_strat, da)} :
       \E is_stockout \in {IsStockout(draw, stockout_chance)} :
       \E sc_penalty \in {ScPenalty(is_stockout)} :
       \E ct \in {TrustAfterStockout(ct0, is_stockout)} :
       \E logsS \in
            {IF is_stockout
             THEN log_event(logs0, quarter,
             "Supply Chain Failure! Stockout on critical parts.",
             "danger")
             ELSE logs0} :
       \E desired_shift \in {DesiredShift(contract_target, contract_mix.Outcome)} :
       \E max_possible_shift \in {MaxPossibleShift(sc, ct)} :
       \E actual_shift \in {ActualShift(desired_shift, max_possible_shift)} :
       \E logs2 \in
            {IF ShiftWarning(desired_shift, actual_shift)
             THEN log_event(logsS, quarter,
             "Sales team struggled to close Outcome contracts. Culture too low.",
             "warning")
             ELSE logsS} :
       \E mix \in {ShiftMix(contract_mix, actual_shift)} :
       \E cash1 \in {(cash0 - holding_cost) - sc_penalty} :
       \E rev_hardware \in {RevHardware(cp, ct)} :
       \E rev_parts \in {RevParts(num_broken, mix.Transactional)} :
       \E logs3 \in
            {IF Cannibalization(invest_iot, rev_parts)
             THEN log_event(logs2, quarter,
             "Cannibalization! IoT prevented failures, killing Parts revenue.",
             "money")
             ELSE logs2} :
       \E rev_service \in {RevService(installed_base, mix.Outcome)} :
       \E cost_service \in {CostService(num_broken, mix.Outcome)} :
       \E gross_profit \in
            {GrossProfit(rev_hardware, rev_parts, rev_service,
             cost_service)} :
       \E cash2 \in {cash1 + gross_profit} :
       \E current_val \in
            {calculate_valuation(
             [Hardware |-> rev_hardware, Parts |-> rev_parts,
             Service |-> rev_service])} :
       \E logs4 \in
            {IF CashCritical(cash2)
             THEN log_event(logs3, quarter,
             "Cash critical! The J-Curve is hitting hard.",
             "danger")
             ELSE logs3} :
           /\ cash' = cash2
           /\ data_accuracy' = da
           /\ sales_culture' = sc
           /\ customer_trust' = ct
           /\ competitor_price' = cp
           /\ contract_mix' = mix
           /\ logs' = logs4
           /\ history' = StoreHistory(history, quarter, cash2, current_val,
                                       mix.Outcome)
           /\ quarter' = QuarterAdvance(quarter)
           /\ turn' = [submit |-> TRUE, quarter |-> quarter,
                       invest_iot |-> invest_iot, invest_train |-> invest_train,
                       invest_brand |-> invest_brand,
                       contract_target |-> contract_target,
                       inventory_strat |-> inventory_strat,
                       cash_before |-> cash,
                       outcome_before |-> contract_mix.Outcome,
                       data_accuracy_before |-> data_accuracy,
                       sales_culture_before |-> sales_culture,
                       customer_trust_before |-> customer_trust,
                       desired_shift |-> desired_shift,
                       max_possible_shift |-> max_possible_shift,
                       actual_shift |-> actual_shift,
                       num_broken |-> num_broken,
                       holding_cost |-> holding_cost,
                       stockout_chance |-> stockout_chance,
                       is_stockout |-> is_stockout, sc_penalty |-> sc_penalty,
                       rev_hardware |-> rev_hardware, rev_parts |-> rev_parts,
                       rev_service |-> rev_service,
                       cost_service |-> cost_service,
                       gross_profit |-> gross_profit,
                       current_val |-> current_val]
           /\ view' = GameOverCheck(cash2, QuarterAdvance(quarter))
    /\ restart_from' = "None"
    /\ UNCHANGED <<game_active, installed_base>>

\* One submitted form: the whole of lines 131-239, then the rerun's game-over
\* check.  draw is the value np.random.random() returns, at ChanceScale.
\* Each local of the script is bound once, in program order
\* (\E x \in {e} binds x to the value of e).
ExecuteQuarter(invest_iot, invest_train, invest_brand, contract_target, inventory_strat, draw) ==
    /\ view.page = "Form"
    /\
       \E total_spend \in {invest_iot + invest_train + invest_brand} :
       \E cash0 \in {Expenses(cash, total_spend)} :
       \E da \in {Capability(data_accuracy, invest_iot, 5)} :
       \E sc \in {Capability(sales_culture, invest_train, 4)} :
       \E ct0 \in {Capability(customer_trust, invest_brand, 3)} :
       \E cp \in {CompetitorMove(competitor_price)} :
       \E logs0 \in
            {IF CompetitorCheaper(cp)
             THEN log_event(logs, quarter,
             "Competitor prices are now 20% lower than yours!",
             "warning")
             ELSE logs} :
       \E desired_shift \in {DesiredShift(contract_target, contract_mix.Outcome)} :
       \E max_possible_shift \in {MaxPossibleShift(sc, ct0)} :
       \E actual_shift \in {ActualShift(desired_shift, max_possible_shift)} :
       \E logs1 \in
            {IF ShiftWarning(desired_shift, actual_shift)
             THEN log_event(logs0, quarter,
             "Sales team struggled to close Outcome contracts. Culture too low.",
             "warning")
             ELSE logs0} :
       \E mix \in {ShiftMix(contract_mix, actual_shift)} :
       \E num_broken \in {NumBroken(installed_base, da)} :
       \E holding_cost \in {HoldingCost(inventory_strat)} :
       \E stockout_chance \in {StockoutChance(inventory_strat, da)} :
       \E is_stockout \in {IsStockout(draw, stockout_chance)} :
       \E sc_penalty \in {ScPenalty(is_stockout)} :
       \E ct \in {TrustAfterStockout(ct0, is_stockout)} :
       \E logs2 \in
            {IF is_stockout
             THEN log_event(logs1, quarter,
             "Supply Chain Failure! Stockout on critical parts.",
             "danger")
             ELSE logs1} :
       \E cash1 \in {(cash0 - holding_cost) - sc_penalty} :
       \E rev_hardware \in {RevHardware(cp, ct)} :
       \E rev_parts \in {RevParts(num_broken, mix.Transactional)} :
       \E logs3 \in
            {IF Cannibalization(invest_iot, rev_parts)
             THEN log_event(logs2, quarter,
             "Cannibalization! IoT prevented failures, killing Parts revenue.",
             "money")
             ELSE logs2} :
       \E rev_service \in {RevService(installed_base, mix.Outcome)} :
       \E cost_service \in {CostService(num_broken, mix.Outcome)} :
       \E gross_profit \in
            {GrossProfit(rev_hardware, rev_parts, rev_service,
             cost_service)} :
       \E cash2 \in {cash1 + gross_profit} :
       \E current_val \in
            {calculate_valuation(
             [Hardware |-> rev_hardware, Parts |-> rev_parts,
             Service |-> rev_service])} :
       \E logs4 \in
            {IF CashCritical(cash2)
             THEN log_event(logs3, quarter,
             "Cash critical! The J-Curve is hitting hard.",
             "danger")
             ELSE logs3} :
           /\ cash' = cash2
           /\ data_accuracy' = da
           /\ sales_culture' = sc
           /\ customer_trust' = ct
           /\ competitor_price' = cp
           /\ contract_mix' = mix
           /\ logs' = logs4
           /\ history' = StoreHistory(history, quarter, cash2, current_val,
                                       mix.Outcome)
           /\ quarter' = QuarterAdvance(quarter)
           /\ turn' = [submit |-> TRUE, quarter |-> quarter,
                       invest_iot |-> invest_iot, invest_train |-> invest_train,
                       invest_brand |-> invest_brand,
                       contract_target |-> contract_target,
                       inventory_strat |-> inventory_strat,
                       cash_before |-> cash,
                       outcome_before |-> contract_mix.Outcome,
                       data_accuracy_before |-> data_accuracy,
                       sales_culture_before |-> sales_culture,
                       customer_trust_before |-> customer_trust,
                       desired_shift |-> desired_shift,
                       max_possible_shift |-> max_possible_shift,
                       actual_shift |-> actual_shift,
                       num_broken |-> num_broken,
                       holding_cost |-> holding_cost,
                       stockout_chance |-> stockout_chance,
                       is_stockout |-> is_stockout, sc_penalty |-> sc_penalty,
                       rev_hardware |-> rev_hardware, rev_parts |-> rev_parts,
                       rev_service |-> rev_service,
                       cost_service |-> cost_service,
                       gross_profit |-> gross_profit,
                       current_val |-> current_val]
           /\ view' = GameOverCheck(cash2, QuarterAdvance(quarter))
    /\ restart_from' = "None"
    /\ UNCHANGED <<game_active, installed_base>>

\* Mutant: a restart that leaves the event log and the history in place.
Restart_KeepsLogs ==
    /\ game_active' = InitialState.game_active
    /\ quarter' = InitialState.quarter
    /\ cash' = InitialState.cash
    /\ installed_base' = InitialState.installed_base
    /\ contract_mix' = InitialState.contract_mix
    /\ data_accuracy' = InitialState.data_accuracy
    /\ sales_culture' = InitialState.sales_culture
    /\ customer_trust' = InitialState.customer_trust
    /\ competitor_price' = InitialState.competitor_price
    /\ turn' = NoTurn
    /\ view' = GameOverCheck(InitialState.cash, InitialState.quarter)
    /\ restart_from' = view.page
    /\ UNCHANGED <<logs, history>>

\* "Restart Simulation" (lines 81-84): every session key is deleted and the
\* rerun initialises the state again (lines 19-38).  The button sits in the
\* sidebar, above the game-over check, so it is there on every page.
Restart ==
    /\ game_active' = InitialState.game_active
    /\ quarter' = InitialState.quarter
    /\ cash' = InitialState.cash
    /\ logs' = InitialState.logs
    /\ installed_base' = InitialState.installed_base
    /\ contract_mix' = InitialState.contract_mix
    /\ data_accuracy' = InitialState.data_accuracy
    /\ sales_culture' = InitialState.sales_culture
    /\ customer_trust' = InitialState.customer_trust
    /\ competitor_price' = InitialState.competitor_price
    /\ history' = InitialState.history
    /\ turn' = NoTurn
    /\ view' = GameOverCheck(InitialState.cash, InitialState.quarter)
    /\ restart_from' = view.page

Init ==
    /\ game_active = InitialState.game_active
    /\ quarter = InitialState.quarter
    /\ cash = InitialState.cash
    /\ logs = InitialState.logs
    /\ installed_base = InitialState.installed_base
    /\ contract_mix = InitialState.contract_mix
    /\ data_accuracy = InitialState.data_accuracy
    /\ sales_culture = InitialState.sales_culture
    /\ customer_trust = InitialState.customer_trust
    /\ competitor_price = InitialState.competitor_price
    /\ history = InitialState.history
    /\ turn = NoTurn
    /\ view = GameOverCheck(InitialState.cash, InitialState.quarter)
    /\ restart_from = "None"

(* ---------------- the decisions and draws explored ---------------------- *)
\* The form admits 11 * 11 * 11 * 101 * 3 decisions a quarter.  The model
\* plays two pairs of them, each pair through all twelve quarters, with the
\* widgets at the ends of their ranges.
\*   Decisions: invest everything and push for Outcome contracts with a safe
\*   stock, or invest nothing, pull back to Transactional and run lean (the
\*   play that meets stockouts).
Decisions ==
    { [invest_iot |-> SpendMax, invest_train |-> SpendMax,
       invest_brand |-> SpendMax, contract_target |-> 100,
       inventory_strat |-> "Hoard (Safe)"],
      [invest_iot |-> 0, invest_train |-> 0, invest_brand |-> 0,
       contract_target |-> 0, inventory_strat |-> "Lean (JIT)"] }
\*   CashDecisions: invest everything without selling Outcome contracts (the
\*   play that runs out of cash), or leave the form as it comes up but for a
\*   target of 50%.
CashDecisions ==
    { [invest_iot |-> SpendMax, invest_train |-> SpendMax,
       invest_brand |-> SpendMax, contract_target |-> 0,
       inventory_strat |-> "Balanced"],
      [invest_iot |-> 0, invest_train |-> 0, invest_brand |-> 0,
       contract_target |-> 50, inventory_strat |-> "Balanced"] }
\* The values of np.random.random() explored: DrawLevels + 1 of them, spread
\* from the lowest to the highest the generator can return.
DrawLevels == 1
Draws == {(k * (ChanceScale - 1)) \div DrawLevels : k \in 0..DrawLevels}

Submit ==
    \E d \in Decisions, draw \in Draws :
        ExecuteQuarter(d.invest_iot, d.invest_train, d.invest_brand,
                       d.contract_target, d.inventory_strat, draw)

SubmitCash ==
    \E d \in CashDecisions, draw \in Draws :
        ExecuteQuarter(d.invest_iot, d.invest_train, d.invest_brand,
                       d.contract_target, d.inventory_strat, draw)

\*   WideDecisions: in the first WideQuarters quarters, every posture with
\*   each of three spends: nothing; 2.0 on IoT and 0.5 on training, target 50;
\*   everything, target 100.  (5.0 + 5.0 + 2.0 on IoT take data_accuracy from
\*   20 to exactly 80.)  From then on the form is submitted with no spend, the
\*   target at 100 and the posture as it comes up, Balanced.
WideQuarters == 3
Postures == {"Lean (JIT)", "Balanced", "Hoard (Safe)"}
WideSpends ==
    { [invest_iot |-> 0, invest_train |-> 0, invest_brand |-> 0,
       contract_target |-> 0],
      [invest_iot |-> 4, invest_train |-> 1, invest_brand |-> 0,
       contract_target |-> 50],
      [invest_iot |-> SpendMax, invest_train |-> SpendMax,
       invest_brand |-> SpendMax, contract_target |-> 100] }
WideDecisions ==
    IF quarter <= WideQuarters
      THEN { [invest_iot |-> s.invest_iot, invest_train |-> s.invest_train,
              invest_brand |-> s.invest_brand,
              contract_target |-> s.contract_target,
              inventory_strat |-> p] : s \in WideSpends, p \in Postures }
      ELSE { [invest_iot |-> 0, invest_train |-> 0, invest_brand |-> 0,
              contract_target |-> 100, inventory_strat |-> "Balanced"] }

SubmitWide ==
    \E d \in WideDecisions, draw \in Draws :
        ExecuteQuarter(d.invest_iot, d.invest_train, d.invest_brand,
                       d.contract_target, d.inventory_strat, draw)

Next == Submit \/ Restart
NextCash == SubmitCash \/ Restart
NextWide == SubmitWide \/ Restart

Spec == Init /\ [][Next]_vars
SpecCash == Init /\ [][NextCash]_vars
SpecWide == Init /\ [][NextWide]_vars
\* The player who keeps submitting the form while it is shown.
SpecCashLive == Init /\ [][NextCash]_vars /\ WF_vars(SubmitCash)

(* ======================= the claims ===================================== *)
SalesWarning == "Sales team struggled to close Outcome contracts. Culture too low."
InRange(metric) == 0 <= metric /\ metric <= 100 * MetricScale
Last(seq) == seq[Len(seq)]

\* C1: after every accepted turn each org metric (data_accuracy,
\* sales_culture, customer_trust) lies in [0, 100].
C1_MetricsInRange ==
    InRange(data_accuracy) /\ InRange(sales_culture) /\ InRange(customer_trust)

\* C2: in the initial state and after every accepted turn
\* Transactional + Outcome = 100, whatever the target and the shift.
C2_MixSumsTo100 ==
    contract_mix.Transactional + contract_mix.Outcome = 100 * MixScale
\* a turn has applied a negative shift, from a positive Outcome percentage
\* back to the target of 0
C2_Witness ==
    /\ turn.submit /\ turn.outcome_before > 0 /\ turn.actual_shift < 0
    /\ contract_mix.Outcome = 0 /\ contract_mix.Transactional = 100 * MixScale

\* C3: the change of the Outcome percentage in a turn is
\* min(contract_target - Outcome, (sales_culture + customer_trust) / 10), the
\* metrics taken after the turn's spend and before its stockout penalty; so
\* with the target above Outcome the new Outcome neither exceeds the target
\* nor rises by more than the cap.
C3_TrustBeforePenalty ==
    customer_trust + (IF turn.is_stockout THEN 10 * MetricScale ELSE 0)
C3_Cap == ((sales_culture + C3_TrustBeforePenalty) * MixScale) \div (10 * MetricScale)
C3_Desired == turn.contract_target * MixScale - turn.outcome_before
C3_Change == contract_mix.Outcome - turn.outcome_before
C3_ShiftIsMin ==
    turn.submit =>
        /\ C3_Change = (IF C3_Desired <= C3_Cap THEN C3_Desired ELSE C3_Cap)
        /\ C3_Desired > 0 =>
              /\ contract_mix.Outcome <= turn.contract_target * MixScale
              /\ C3_Change <= C3_Cap
\* a turn whose target lay above Outcome by more than the cap
C3_Witness ==
    turn.submit /\ C3_Desired > C3_Cap /\ C3_Cap > 0 /\ C3_Change = C3_Cap

\* C4: the sales warning is logged in a turn exactly when the applied shift is
\* smaller than the desired shift.
C4_WarningLogged ==
    \E i \in 1..Len(logs) :
        logs[i].quarter = turn.quarter /\ logs[i].message = SalesWarning
C4_WarningIffCapped ==
    turn.submit => (C4_WarningLogged <=> turn.actual_shift < turn.desired_shift)

\* C5: the session is Bankrupt if and only if cash < 0 after a turn's net
\* change; with cash >= 0 (cash = 0 included) it is not, and it still takes a
\* turn while the quarter allows.
C5_BankruptIffNegativeCash ==
    /\ (view.page = "Bankrupt") <=> (cash < 0)
    /\ (cash >= 0 /\ quarter <= QUARTERS_TOTAL) => view.page = "Form"
\* a turn before the last quarter has taken cash below 0
C5_Witness ==
    turn.submit /\ turn.cash_before >= 0 /\ cash < 0
        /\ quarter <= QUARTERS_TOTAL /\ view.page = "Bankrupt"

\* C6: once cash < 0 or quarter > QUARTERS_TOTAL, no further turn is
\* accepted: every step from such a state leaves quarter, cash, contract mix,
\* the three metrics, competitor price, event log and history as they are,
\* unless it is a Restart (which puts the initial values back).
C6_Terminal == cash < 0 \/ quarter > QUARTERS_TOTAL
C6_Restarted ==
    /\ quarter = 1 /\ cash = STARTING_CASH
    /\ logs = << >> /\ history = << >>
    /\ contract_mix = [Transactional |-> 100 * MixScale, Outcome |-> 0]
    /\ data_accuracy = 20 * MetricScale /\ sales_culture = 50 * MetricScale
    /\ customer_trust = 40 * MetricScale /\ competitor_price = PriceScale
C6_TerminalIsPermanent ==
    [][C6_Terminal =>
          \/ UNCHANGED <<quarter, cash, contract_mix, data_accuracy,
                         sales_culture, customer_trust, competitor_price,
                         logs, history>>
          \/ C6_Restarted']_vars
\* a terminal state of either kind, reached by a turn
C6_Witness ==
    turn.submit /\ C6_Terminal /\ Len(history) >= 3 /\ view.page # "Form"

\* C7: 1 <= quarter <= QUARTERS_TOTAL + 1 in every reachable state, and every
\* accepted turn increases quarter by exactly 1.
C7_QuarterBounds ==
    /\ 1 <= quarter /\ quarter <= QUARTERS_TOTAL + 1
    /\ turn.submit => quarter = turn.quarter + 1
\* the last turn has taken quarter to QUARTERS_TOTAL + 1
C7_Witness ==
    turn.submit /\ turn.quarter = QUARTERS_TOTAL /\ quarter = QUARTERS_TOTAL + 1

\* C8 (as claimed): the session is Complete exactly when quarter exceeds
\* QUARTERS_TOTAL.
C8_CompleteIffQuarterPast ==
    (view.page = "Complete") <=> (quarter > QUARTERS_TOTAL)
\* C8 (amended): the session is Complete exactly when quarter exceeds
\* QUARTERS_TOTAL and cash is not below 0; with quarter past QUARTERS_TOTAL and
\* cash below 0 it is Bankrupt.
C8_CompleteIffQuarterPastAndSolvent ==
    /\ (view.page = "Complete") <=> (quarter > QUARTERS_TOTAL /\ cash >= 0)
    /\ (quarter > QUARTERS_TOTAL /\ cash < 0) => view.page = "Bankrupt"
\* the twelfth turn has ended with cash left
C8_Witness ==
    view.page = "Complete" /\ quarter = QUARTERS_TOTAL + 1 /\ cash >= 0
        /\ Len(history) = QUARTERS_TOTAL

\* C9: when the game is Complete the page shows the grade of the valuation of
\* the last computed state, the top tier only for a valuation strictly
\* greater than WINNING_VALUATION.
C9_Grade(valuation) == IF valuation > WINNING_VALUATION THEN "top_tier" ELSE "lower_tier"
C9_FinalScoreGraded ==
    view.page = "Complete" => C9_Grade(Last(history).Valuation) \in view.elements

\* C10: the valuation recorded for a turn is 0.8 * Hardware + 1.0 * Parts
\* + 5.0 * Service of that turn's revenue streams (streams at RevScale, the
\* valuation at ValScale), and 0 when all three streams are 0.
C10_ValuationIsLinear ==
    turn.submit =>
        /\ 10 * Last(history).Valuation =
               (ValScale \div RevScale)
                 * (8 * turn.rev_hardware + 10 * turn.rev_parts
                     + 50 * turn.rev_service)
        /\ (turn.rev_hardware = 0 /\ turn.rev_parts = 0 /\ turn.rev_service = 0)
               => Last(history).Valuation = 0
\* a turn with all three streams positive
C10_Witness ==
    /\ turn.submit
    /\ turn.rev_hardware > 0 /\ turn.rev_parts > 0 /\ turn.rev_service > 0
    /\ Last(history).Valuation > 0

\* C11: in every accepted turn each revenue stream computed that turn
\* (hardware, parts, service) is non-negative, and so is the valuation stored
\* in the history snapshot.
C11_StreamsNonNegative ==
    turn.submit =>
        /\ turn.rev_hardware >= 0 /\ turn.rev_parts >= 0
        /\ turn.rev_service >= 0
        /\ Last(history).Valuation >= 0

\* C12: for every accepted turn cash_after = cash_before - (invest_iot
\* + invest_train + invest_brand) - 2.0 - holding_cost - stockout_penalty
\* + gross_profit: the spend and the fixed burn of 2.0 are charged once each,
\* the burn whatever the decisions are.
C12_Spend ==
    ((turn.invest_iot + turn.invest_train + turn.invest_brand) * CashScale)
        \div SpendScale
C12_CashEquation ==
    turn.submit =>
        cash = turn.cash_before - C12_Spend - 2 * CashScale
                 - turn.holding_cost - turn.sc_penalty + turn.gross_profit
\* a turn with a spend, a stockout penalty and a profit
C12_Witness ==
    /\ turn.submit /\ C12_Spend > 0 /\ turn.sc_penalty > 0
    /\ turn.gross_profit > 0 /\ cash # turn.cash_before

\* C13: in every accepted turn the holding cost of the chosen posture
\* (Hoard 3.0, Balanced 1.5, Lean 0.5) is deducted from cash with or without
\* a stockout; a stockout also deducts a fixed penalty from cash, lowers
\* customer_trust by 10 and adds a danger event; without a stockout none of
\* the three happens in that turn.
StockoutEvent == "Supply Chain Failure! Stockout on critical parts."
C13_Holding ==
    CASE turn.inventory_strat = "Hoard (Safe)" -> (30 * CashScale) \div 10
      [] turn.inventory_strat = "Balanced" -> (15 * CashScale) \div 10
      [] turn.inventory_strat = "Lean (JIT)" -> (5 * CashScale) \div 10
C13_Penalty == 3 * CashScale
C13_CashWithoutSupplyChain ==
    turn.cash_before - C12_Spend - fixed_burn + turn.gross_profit
C13_TrustWithoutStockout ==
    turn.customer_trust_before + (turn.invest_brand * 3 * MetricScale) \div SpendScale
C13_DangerLogged ==
    \E i \in 1..Len(logs) :
        /\ logs[i].quarter = turn.quarter /\ logs[i].message = StockoutEvent
        /\ logs[i].icon = icon_map("danger")
C13_SupplyChainEffects ==
    turn.submit =>
        IF turn.is_stockout
          THEN /\ cash = C13_CashWithoutSupplyChain - C13_Holding - C13_Penalty
               /\ customer_trust = C13_TrustWithoutStockout - 10 * MetricScale
               /\ C13_DangerLogged
          ELSE /\ cash = C13_CashWithoutSupplyChain - C13_Holding
               /\ customer_trust = C13_TrustWithoutStockout
               /\ ~C13_DangerLogged
\* a stockout in a turn that also raised the trust by its brand spend
C13_Witness ==
    /\ turn.submit /\ turn.is_stockout /\ turn.invest_brand > 0
    /\ customer_trust < C13_TrustWithoutStockout /\ C13_DangerLogged

\* C14: history is append-only: every accepted turn appends exactly one
\* snapshot, whose Quarter is the quarter before the advance and whose Cash is
\* the cash after the turn, and leaves the earlier snapshots as they are; so
\* in every reachable state history has quarter - 1 rows with Quarter fields
\* 1, 2, ..., quarter - 1 in this order.  (A Restart empties it.)
C14_Rows ==
    /\ Len(history) = quarter - 1
    /\ \A i \in 1..Len(history) : history[i].Quarter = i
C14_OneSnapshotAppended ==
    /\ Len(history') = Len(history) + 1
    /\ SubSeq(history', 1, Len(history)) = history
    /\ history'[Len(history')].Quarter = quarter
    /\ history'[Len(history')].Cash = cash'
C14_HistoryAppendOnly ==
    /\ []C14_Rows
    /\ [][IF restart_from' # "None"
            THEN history' = << >>
            ELSE C14_OneSnapshotAppended]_vars
\* a third or later snapshot has been appended
C14_Witness ==
    /\ turn.submit /\ Len(history) >= 3
    /\ Last(history).Quarter = turn.quarter /\ Last(history).Cash = cash
    /\ history[1].Quarter = 1 /\ history[1].Cash # cash

\* C15: the event log is ordered most-recent-first: a turn inserts its events
\* at the head, each labelled with the quarter in which it was emitted, and
\* neither removes nor alters the entries that were there; so the quarter
\* labels read from head to tail never increase.  (A Restart empties the log.)
C15_LabelsNonIncreasing ==
    \A i \in 1..Len(logs) : \A j \in i..Len(logs) :
        logs[i].quarter >= logs[j].quarter
C15_EventsInsertedAtHead ==
    /\ Len(logs') >= Len(logs)
    /\ SubSeq(logs', Len(logs') - Len(logs) + 1, Len(logs')) = logs
    /\ \A i \in 1..(Len(logs') - Len(logs)) : logs'[i].quarter = quarter
C15_LogMostRecentFirst ==
    /\ []C15_LabelsNonIncreasing
    /\ [][IF restart_from' # "None"
            THEN logs' = << >>
            ELSE C15_EventsInsertedAtHead]_vars
\* a turn has put two events in front of events of earlier quarters
C15_Witness ==
    /\ turn.submit /\ Len(logs) >= 4
    /\ logs[1].quarter = turn.quarter /\ logs[2].quarter = turn.quarter
    /\ logs[1].message # logs[2].message
    /\ logs[Len(logs)].quarter < turn.quarter

\* C16: Restart, from any reachable state, the terminal states Bankrupt and
\* Complete included, gives exactly the initial state (quarter 1, cash 20.0,
\* contract mix 100/0, data_accuracy 20, sales_culture 50, customer_trust 40,
\* competitor_price 1.0, installed_base 1000, empty event log, empty
\* history), with nothing carried over, and turns are accepted again.
C16_InitialValues ==
    /\ quarter = 1 /\ cash = 20 * CashScale
    /\ contract_mix.Transactional = 100 * MixScale /\ contract_mix.Outcome = 0
    /\ data_accuracy = 20 * MetricScale /\ sales_culture = 50 * MetricScale
    /\ customer_trust = 40 * MetricScale /\ competitor_price = PriceScale
    /\ installed_base = 1000 /\ game_active
    /\ logs = << >> /\ history = << >>
C16_RestartGivesInitialState ==
    restart_from # "None" =>
        /\ C16_InitialValues
        /\ view.page = "Form" /\ ENABLED SubmitCash
\* Restart has been pressed on the page of a completed game
C16_Witness ==
    restart_from = "Complete" /\ C16_InitialValues /\ view.page = "Form"

\* C17: within one turn the cap of the contract shift, (sales_culture
\* + customer_trust) / 10, is computed from the metrics after this turn's
\* spend increments and before this turn's stockout trust penalty; hardware
\* revenue is computed from customer_trust after this turn's stockout
\* penalty; parts and service revenue from the contract mix after this
\* turn's shift.
C17_SalesAfterSpend ==
    turn.sales_culture_before + (turn.invest_train * 4 * MetricScale) \div SpendScale
C17_TrustAfterSpend ==
    turn.customer_trust_before + (turn.invest_brand * 3 * MetricScale) \div SpendScale
C17_TrustAfterPenalty ==
    C17_TrustAfterSpend - (IF turn.is_stockout THEN 10 * MetricScale ELSE 0)
C17_OutcomeAfterShift == turn.outcome_before + turn.actual_shift
C17_StepOrder ==
    turn.submit =>
        /\ 10 * MetricScale * turn.max_possible_shift
               = (C17_SalesAfterSpend + C17_TrustAfterSpend) * MixScale
        /\ turn.rev_hardware
               = RevHardware(competitor_price, C17_TrustAfterPenalty)
        /\ turn.rev_parts
               = RevParts(turn.num_broken, 100 * MixScale - C17_OutcomeAfterShift)
        /\ turn.rev_service = RevService(installed_base, C17_OutcomeAfterShift)
\* a turn with a spend on training and brand, a stockout and a shift that
\* the cap held back
C17_Witness ==
    /\ turn.submit /\ turn.invest_train > 0 /\ turn.invest_brand > 0
    /\ turn.is_stockout
    /\ turn.actual_shift > 0 /\ turn.actual_shift = turn.max_possible_shift
    /\ turn.rev_service > 0

\* C18: every session terminates: from the initial state, or after a
\* Restart, a player who keeps submitting turns reaches a terminal state
\* (Bankrupt or Complete) after at most QUARTERS_TOTAL accepted turns,
\* whatever the decisions and the stockout draws are.  The accepted turns of
\* a session are the rows of history; the form is shown only after fewer than
\* QUARTERS_TOTAL of them, and a session always ends or is restarted.
C18_TerminalPage == view.page \in {"Bankrupt", "Complete"}
C18_TurnsBounded ==
    /\ Len(history) <= QUARTERS_TOTAL
    /\ view.page = "Form" => Len(history) < QUARTERS_TOTAL
    /\ Len(history) = QUARTERS_TOTAL => C18_TerminalPage
C18_SessionTerminates ==
    /\ []C18_TurnsBounded
    /\ []<>(C18_TerminalPage \/ restart_from # "None")
\* the twelfth turn has ended a session
C18_Witness ==
    /\ turn.submit /\ turn.quarter = QUARTERS_TOTAL
    /\ Len(history) = QUARTERS_TOTAL /\ C18_TerminalPage

\* C19: the stockout probability is floored at 0 and a stockout occurs only
\* when it is strictly positive; data_accuracy starts at 20 and never
\* decreases, so a stockout is impossible under the Hoard and the Balanced
\* postures and possible only under the Lean posture while data_accuracy
\* (after the turn's IoT spend) is below 80.
C19_Lean == turn.inventory_strat = "Lean (JIT)"
C19_StockoutOnlyLeanBelow80 ==
    /\ data_accuracy >= 20 * MetricScale
    /\ turn.submit =>
          /\ data_accuracy >= turn.data_accuracy_before
          /\ turn.stockout_chance >= 0
          /\ turn.is_stockout => turn.stockout_chance > 0
          /\ turn.inventory_strat \in {"Hoard (Safe)", "Balanced"}
                 => turn.stockout_chance = 0 /\ ~turn.is_stockout
          /\ turn.stockout_chance > 0
                 <=> (C19_Lean /\ data_accuracy < 80 * MetricScale)
\* a stockout under Lean, in a turn whose IoT spend had raised data_accuracy
\* to a value still below 80
C19_Witness ==
    /\ turn.submit /\ C19_Lean /\ turn.is_stockout
    /\ data_accuracy > turn.data_accuracy_before
    /\ data_accuracy < 80 * MetricScale

\* C20: in every reachable state both contract-mix percentages lie in
\* [0, 100]: with every target chosen in [0, 100], no sequence of turns and
\* stockout draws takes Outcome below 0 or above 100.
C20_MixInRange ==
    /\ 0 <= contract_mix.Outcome /\ contract_mix.Outcome <= 100 * MixScale
    /\ 0 <= contract_mix.Transactional
    /\ contract_mix.Transactional <= 100 * MixScale

====
